---- MODULE Spec2Model ----
(***************************************************************************)
(* A model of the fintech-application ledger service (src/app.js): the     *)
(* /login route, the verifyToken gate and the four account routes over the *)
(* in-memory account map.  Request bodies arrive through express.json(),   *)
(* so an amount is any value JSON.parse can produce; balances are          *)
(* JavaScript numbers and follow IEEE-754 for Infinity and NaN.  Finite    *)
(* numbers are modelled by integers (rounding of fractions is not          *)
(* modelled).                                                              *)
(***************************************************************************)
EXTENDS Integers, Sequences, FiniteSets, TLC

\* ------------------------------------------------------------------ bounds
MaxAccounts == 2
MaxAmount == 2
MaxDeposited == 2
MaxTicks == 2
MaxTokens == 1
MaxUUID == 2
MaxInflight == 3
MaxSessions == 2

\* --------------------------------------------------------- program constants
adminUsername == "admin"
adminPassword == "admin"
jwtSecret == "56025E0C0FA4CBC84F060DAD39D8116B7B3161FC"
\* tokenExpiry = "1h": jsonwebtoken turns the time span into seconds
tokenExpiry == 3600

\* The clock is read in whole seconds; the model advances it in steps of half
\* the token lifetime, so "before", "exactly at" and "after" expiry all occur.
TickStep == tokenExpiry \div 2

\* ------------------------------------------------------- JavaScript values
Fin(n) == [k |-> "fin", v |-> n]
Infinity == [k |-> "inf", v |-> 0]
NegInfinity == [k |-> "ninf", v |-> 0]
NaN == [k |-> "nan", v |-> 0]
StrAbc == [k |-> "str", v |-> 0]
Undefined == [k |-> "undef", v |-> 0]
Null == [k |-> "null", v |-> 0]

\* typeof x === 'number'
TypeofNumber(x) == x.k \in {"fin", "inf", "ninf", "nan"}

\* a < b on numbers (false whenever an operand is NaN)
JsLt(a, b) ==
  CASE a.k = "nan" \/ b.k = "nan" -> FALSE
    [] a.k = "inf" -> FALSE
    [] a.k = "ninf" -> b.k # "ninf"
    [] b.k = "inf" -> TRUE
    [] b.k = "ninf" -> FALSE
    [] OTHER -> a.v < b.v

\* a <= b on numbers (false whenever an operand is NaN)
JsLe(a, b) ==
  CASE a.k = "nan" \/ b.k = "nan" -> FALSE
    [] OTHER -> a = b \/ JsLt(a, b)

\* a + b on numbers
JsAdd(a, b) ==
  CASE a.k = "nan" \/ b.k = "nan" -> NaN
    [] a.k = "inf" -> IF b.k = "ninf" THEN NaN ELSE Infinity
    [] a.k = "ninf" -> IF b.k = "inf" THEN NaN ELSE NegInfinity
    [] b.k = "inf" -> Infinity
    [] b.k = "ninf" -> NegInfinity
    [] OTHER -> Fin(a.v + b.v)

\* -b on numbers
JsNeg(b) ==
  CASE b.k = "inf" -> NegInfinity
    [] b.k = "ninf" -> Infinity
    [] b.k = "fin" -> Fin(0 - b.v)
    [] OTHER -> b

\* a - b on numbers
JsSub(a, b) == JsAdd(a, JsNeg(b))

\* JSON.stringify of a number in a response body: non-finite numbers become null
JsonNumber(x) == IF x.k = "fin" THEN x ELSE Null

\* ---------------------------------------------------------------- path ids
Digits == <<"0", "1", "2", "3", "4", "5", "6", "7", "8", "9">>
IsDigit(c) == \E i \in 1..10 : Digits[i] = c
DigitVal(c) == (CHOOSE i \in 1..10 : Digits[i] = c) - 1

RECURSIVE ParseDigits(_, _, _)
\* the value of the longest prefix of digits of s from position i on, acc so far
ParseDigits(s, i, acc) ==
  IF i > Len(s) \/ ~IsDigit(s[i]) THEN acc
  ELSE ParseDigits(s, i + 1, acc * 10 + DigitVal(s[i]))

\* parseInt(s, 10): optional sign, leading digits, NaN when there is no digit
parseInt(s) ==
  LET neg == Len(s) >= 1 /\ s[1] = "-"
      start == IF neg THEN 2 ELSE 1
  IN IF start > Len(s) \/ ~IsDigit(s[start]) THEN NaN
     ELSE IF neg THEN Fin(0 - ParseDigits(s, start, 0))
     ELSE Fin(ParseDigits(s, start, 0))

\* the decimal text of a small id, as it appears in the request path
IdText(n) == IF n < 10 THEN <<Digits[n + 1]>> ELSE <<Digits[(n \div 10) + 1], Digits[(n % 10) + 1]>>

\* ------------------------------------------------------------------ tokens
\* the empty signature part of an unsigned token
NoSignature == [key |-> ""]
\* a header word that is not a JWT (raw text only)
Word(text) == [raw |-> text]
UndefinedToken == Word("undefined")

\* HMAC of the payload under a key, abstractly: it matches only the same
\* payload signed with the same key
Hmac(payload, key) == [payload |-> payload, key |-> key]

\* jwt.sign(payload, secret, {expiresIn}) at clock time t
jwtSign(username, role, secret, expiresIn, t) ==
  LET payload == [username |-> username, role |-> role, iat |-> t, exp |-> t + expiresIn]
  IN [raw |-> "jwt", payload |-> payload, sig |-> Hmac(payload, secret)]

\* mutant: the expiry of the token is not checked
jwtVerifyIgnoringExpiry(token, secret, t) ==
  CASE token.raw = "undefined" -> "jwt must be provided"
    [] token.raw # "jwt" -> "jwt malformed"
    [] token.sig = NoSignature -> "jwt signature is required"
    [] token.sig # [payload |-> token.payload, key |-> secret] -> "invalid signature"
    [] OTHER -> ""

\* jwt.verify(token, secret) at clock time t: "" when the token verifies,
\* otherwise the error message
jwtVerify(token, secret, t) ==
  CASE token.raw = "undefined" -> "jwt must be provided"
    [] token.raw # "jwt" -> "jwt malformed"
    [] token.sig = NoSignature -> "jwt signature is required"
    [] token.sig # Hmac(token.payload, secret) -> "invalid signature"
    [] t >= token.payload.exp -> "jwt expired"
    [] OTHER -> ""

\* ------------------------------------------------------------------- state
VARIABLES
  accounts,       \* account id -> [id, balance]
  nextAccountId,  \* the id counter
  now,            \* the clock, in seconds
  issued,         \* tokens handed out by /login (held by clients, not the server)
  last,           \* the exchange on the wire: the request served, its response, the ledger before
  created,        \* account ids returned by 201 responses, in order
  net,            \* account id -> amounts of its 200 deposits minus its 200 withdrawals
  calls           \* concurrent withdrawals in flight: received, not yet served

vars == <<accounts, nextAccountId, now, issued, last, created, net, calls>>

\* ---------------------------------------------------------------- the gate
AbsentHeader == [present |-> FALSE, parts |-> <<>>]
\* a header value, as the words bearerHeader.split(' ') yields
HeaderOf(words) == [present |-> TRUE, parts |-> words]

\* the two ways the gate ends: it calls next() and sends nothing, or it sends one
\* 403 response and does not call next(); sent counts the responses it sent
Admit == [admitted |-> TRUE, status |-> 0, error |-> "", sent |-> 0]
Reject(message) == [admitted |-> FALSE, status |-> 403, error |-> message, sent |-> 1]

\* mutant: the return before res.status(403) is missing, so next() runs as well
verifyTokenNoReturn(header, t) ==
  IF header.present
  THEN LET token == IF Len(header.parts) >= 2 THEN header.parts[2] ELSE UndefinedToken
           err == jwtVerify(token, jwtSecret, t)
       IN IF err # "" THEN [Reject("Token is not valid") EXCEPT !.admitted = TRUE] ELSE Admit
  ELSE Reject("No token provided")

\* mutant: the server keeps the tokens it issued and honours only the latest
verifyTokenLatestOnly(header, t) ==
  IF header.present
  THEN LET token == IF Len(header.parts) >= 2 THEN header.parts[2] ELSE UndefinedToken
           err == jwtVerify(token, jwtSecret, t)
       IN IF err # "" \/ (\E other \in issued : other.payload.iat > token.payload.iat)
          THEN Reject("Token is not valid") ELSE Admit
  ELSE Reject("No token provided")

\* verifyToken: the outcome of the gate for a header at clock time t
verifyToken(header, t) ==
  IF header.present
  THEN LET token == IF Len(header.parts) >= 2 THEN header.parts[2] ELSE UndefinedToken
           err == jwtVerify(token, jwtSecret, t)
       IN IF err # "" THEN Reject("Token is not valid") ELSE Admit
  ELSE Reject("No token provided")

\* ------------------------------------------------------------ the handlers
\* accounts[accountId] is an account (not undefined)
HasAccount(accs, accountId) == accountId.k = "fin" /\ accountId.v \in DOMAIN accs

\* the amount check of deposit and withdraw: true when the amount is refused
InvalidAmount(amount) == ~TypeofNumber(amount) \/ JsLe(amount, Fin(0))

\* mutant: the sufficiency check is missing
InsufficientFundsNever(balance, amount) == FALSE

\* the sufficiency check of withdraw: true when the withdrawal is refused
InsufficientFunds(balance, amount) == JsLt(balance, amount)

\* what one run of a route handler does: the one response it sends (every
\* res.status(..).json(..) is the last statement of its path) and the ledger it
\* leaves; sent counts the responses of the request, handled the handler runs
Outcome(status, error, accs, nextId, accountId, txn, balance, token) ==
  [status |-> status, error |-> error, accounts |-> accs, nextAccountId |-> nextId,
   account_id |-> accountId, transaction_id |-> txn, balance |-> balance, token |-> token,
   sent |-> 1, handled |-> 1]

Failure(status, error, accs, nextId) ==
  Outcome(status, error, accs, nextId, 0, 0, Undefined, UndefinedToken)

\* mutant: the password is not compared
loginHandlerUsernameOnly(accs, nextId, username, password, t) ==
  IF username = adminUsername
  THEN Outcome(200, "", accs, nextId, 0, 0, Undefined,
               jwtSign(username, "admin", jwtSecret, tokenExpiry, t))
  ELSE Failure(401, "Invalid credentials", accs, nextId)

\* POST /login
loginHandler(accs, nextId, username, password, t) ==
  IF username = adminUsername /\ password = adminPassword
  THEN Outcome(200, "", accs, nextId, 0, 0, Undefined,
               jwtSign(username, "admin", jwtSecret, tokenExpiry, t))
  ELSE Failure(401, "Invalid credentials", accs, nextId)

\* mutant: the id counter is not advanced
createAccountHandlerNoIncrement(accs, nextId) ==
  LET account == [id |-> nextId, balance |-> Fin(0)]
      stored == [i \in DOMAIN accs \cup {nextId} |->
                   IF i = nextId THEN account ELSE accs[i]]
  IN Outcome(201, "", stored, nextId, account.id, 0, Undefined, UndefinedToken)

\* mutant: the counter is advanced before the account is built from it
createAccountHandlerIncrementFirst(accs, nextId) ==
  LET account == [id |-> nextId + 1, balance |-> Fin(0)]
      stored == [i \in DOMAIN accs \cup {nextId + 1} |->
                   IF i = nextId + 1 THEN account ELSE accs[i]]
  IN Outcome(201, "", stored, nextId + 1, account.id, 0, Undefined, UndefinedToken)

\* POST /accounts
createAccountHandler(accs, nextId) ==
  LET account == [id |-> nextId, balance |-> Fin(0)]
      stored == [i \in DOMAIN accs \cup {nextId} |->
                   IF i = nextId THEN account ELSE accs[i]]
  IN Outcome(201, "", stored, nextId + 1, account.id, 0, Undefined, UndefinedToken)

\* mutant: the amount is checked before the account is looked up
depositHandlerAmountFirst(accs, nextId, idParam, amount, uuid) ==
  LET accountId == parseInt(idParam)
  IN IF InvalidAmount(amount)
     THEN Failure(400, "Invalid deposit amount", accs, nextId)
     ELSE IF ~HasAccount(accs, accountId)
     THEN Failure(404, "Account not found", accs, nextId)
     ELSE Outcome(200, "",
                  [accs EXCEPT ![accountId.v].balance = JsAdd(@, amount)],
                  nextId, 0, uuid, Undefined, UndefinedToken)

\* mutant: the deposit is credited to every account
depositHandlerCreditsAll(accs, nextId, idParam, amount, uuid) ==
  LET accountId == parseInt(idParam)
  IN IF ~HasAccount(accs, accountId)
     THEN Failure(404, "Account not found", accs, nextId)
     ELSE IF InvalidAmount(amount)
     THEN Failure(400, "Invalid deposit amount", accs, nextId)
     ELSE Outcome(200, "",
                  [i \in DOMAIN accs |-> [accs[i] EXCEPT !.balance = JsAdd(@, amount)]],
                  nextId, 0, uuid, Undefined, UndefinedToken)

\* POST /accounts/:id/deposit; uuid is the value uuidv4() draws
depositHandler(accs, nextId, idParam, amount, uuid) ==
  LET accountId == parseInt(idParam)
  IN IF ~HasAccount(accs, accountId)
     THEN Failure(404, "Account not found", accs, nextId)
     ELSE IF InvalidAmount(amount)
     THEN Failure(400, "Invalid deposit amount", accs, nextId)
     ELSE Outcome(200, "",
                  [accs EXCEPT ![accountId.v].balance = JsAdd(@, amount)],
                  nextId, 0, uuid, Undefined, UndefinedToken)

\* mutant: the balance is debited before the sufficiency check
withdrawHandlerDebitsFirst(accs, nextId, idParam, amount, uuid) ==
  LET accountId == parseInt(idParam)
      debited == [accs EXCEPT ![accountId.v].balance = JsSub(@, amount)]
  IN IF ~HasAccount(accs, accountId)
     THEN Failure(404, "Account not found", accs, nextId)
     ELSE IF InvalidAmount(amount)
     THEN Failure(400, "Invalid withdrawal amount", accs, nextId)
     ELSE IF InsufficientFunds(accs[accountId.v].balance, amount)
     THEN Failure(400, "Insufficient funds", debited, nextId)
     ELSE Outcome(200, "", debited, nextId, 0, uuid, Undefined, UndefinedToken)

\* POST /accounts/:id/withdraw; uuid is the value uuidv4() draws
withdrawHandler(accs, nextId, idParam, amount, uuid) ==
  LET accountId == parseInt(idParam)
  IN IF ~HasAccount(accs, accountId)
     THEN Failure(404, "Account not found", accs, nextId)
     ELSE IF InvalidAmount(amount)
     THEN Failure(400, "Invalid withdrawal amount", accs, nextId)
     ELSE IF InsufficientFunds(accs[accountId.v].balance, amount)
     THEN Failure(400, "Insufficient funds", accs, nextId)
     ELSE Outcome(200, "",
                  [accs EXCEPT ![accountId.v].balance = JsSub(@, amount)],
                  nextId, 0, uuid, Undefined, UndefinedToken)

\* GET /accounts/:id/balance
balanceHandler(accs, nextId, idParam) ==
  LET accountId == parseInt(idParam)
  IN IF ~HasAccount(accs, accountId)
     THEN Failure(404, "Account not found", accs, nextId)
     ELSE Outcome(200, "", accs, nextId, 0, 0,
                  JsonNumber(accs[accountId.v].balance), UndefinedToken)

\* mutant: the handler's account lookup answers before the gate
ProtectedLookupFirst(header, t, accs, nextId, outcome) ==
  LET gate == verifyToken(header, t)
  IN IF outcome.status = 404 \/ gate.admitted THEN outcome
     ELSE [Failure(gate.status, gate.error, accs, nextId) EXCEPT !.handled = 0]

\* a protected route: the gate, then the handler's outcome if admitted
Protected(header, t, accs, nextId, outcome) ==
  LET gate == verifyToken(header, t)
  IN IF gate.admitted
     THEN [outcome EXCEPT !.sent = gate.sent + @]
     ELSE [Failure(gate.status, gate.error, accs, nextId)
             EXCEPT !.sent = gate.sent, !.handled = 0]

\* ------------------------------------------------------------ the callers
Usernames == {"admin", "user"}
Passwords == {"admin", "user"}

\* amounts a JSON body can carry: numbers (1e999 parses to Infinity; NaN has
\* no JSON text), a string, or no amount at all
Amounts == {Fin(n) : n \in 0..MaxAmount} \cup {Fin(-5), Infinity, StrAbc, Undefined}

\* a caller whose header is not a token /login handed out, untouched, sends one
\* of two bodies: a valid amount and an invalid one
ProbeAmounts == {Fin(1), StrAbc}
AmountsFor(cred) == IF cred[1] = "bearer" THEN Amounts ELSE ProbeAmounts

\* the :id path parameter: ids up to one past the last that can exist, a word
\* with no digit, and digits followed by a letter
IdParams == {IdText(n) : n \in 1..(MaxAccounts + 1)} \cup {<<"a">>, <<"1", "a">>}

HeaderKinds == {"none", "bearer", "tampered", "unsigned", "schemeonly", "garbage"}
TokenKinds == {"bearer", "tampered", "unsigned"}

\* the authorization header a caller of each kind sends, built from a token
\* it holds
MkHeader(kind, tok) ==
  CASE kind = "none" -> AbsentHeader
    [] kind = "bearer" -> HeaderOf(<<Word("Bearer"), tok>>)
    [] kind = "tampered" ->
         HeaderOf(<<Word("Bearer"), [tok EXCEPT !.payload.exp = @ + tokenExpiry]>>)
    [] kind = "unsigned" -> HeaderOf(<<Word("Bearer"), [tok EXCEPT !.sig = NoSignature]>>)
    [] kind = "schemeonly" -> HeaderOf(<<Word("Bearer")>>)
    [] OTHER -> HeaderOf(<<Word("Bearer"), Word("abc")>>)

\* the credentials a caller can present: any kind, with any token handed out
Credentials ==
  {<<kind, tok>> : kind \in TokenKinds, tok \in issued}
    \cup {<<kind, UndefinedToken>> : kind \in HeaderKinds \ TokenKinds}

\* nothing on the wire
Idle ==
  [phase |-> "idle", op |-> "none", hk |-> "none", tok |-> UndefinedToken,
   username |-> "", password |-> "", idParam |-> <<>>, amount |-> Undefined,
   status |-> 0, error |-> "", account_id |-> 0, transaction_id |-> 0,
   balance |-> Undefined, token |-> UndefinedToken, sent |-> 0, handled |-> 0,
   before |-> [accounts |-> <<>>, nextAccountId |-> 0]]

Request(op, cred, idParam, amount) ==
  [Idle EXCEPT !.phase = "sent", !.op = op, !.hk = cred[1], !.tok = cred[2],
               !.idParam = idParam, !.amount = amount]

LoginRequest(username, password) ==
  [Idle EXCEPT !.phase = "sent", !.op = "login", !.username = username,
               !.password = password]

\* the requests a caller can send to each route
LoginRequests == {LoginRequest(u, p) : u \in Usernames, p \in Passwords}
CreateRequests == {Request("createAccount", c, <<>>, Undefined) : c \in Credentials}
MoneyRequests(op) ==
  UNION {{Request(op, c, i, a) : i \in IdParams, a \in AmountsFor(c)} : c \in Credentials}
BalanceRequests == {Request("getBalance", c, i, Undefined) : c \in Credentials, i \in IdParams}

\* the request together with the response sent for it, and the account map and
\* id counter the request found
Answered(req, out, accs, nextId) ==
  [req EXCEPT !.phase = "answered", !.status = out.status, !.error = out.error,
              !.account_id = out.account_id, !.transaction_id = out.transaction_id,
              !.balance = out.balance, !.token = out.token,
              !.sent = out.sent, !.handled = out.handled,
              !.before = [accounts |-> accs, nextAccountId |-> nextId]]

\* the account id a request's path names
Target(req) == parseInt(req.idParam)

\* the bookkeeping of what the responses reported
Tally(sums, req, out) ==
  IF out.status = 201
  THEN [i \in DOMAIN sums \cup {out.account_id} |->
          IF i \in DOMAIN sums THEN sums[i] ELSE Fin(0)]
  ELSE IF out.status = 200 /\ req.op \in {"deposit", "withdraw"}
  THEN [i \in DOMAIN sums |->
          IF Fin(i) # Target(req) THEN sums[i]
          ELSE IF req.op = "deposit" THEN JsAdd(sums[i], req.amount)
          ELSE JsSub(sums[i], req.amount)]
  ELSE sums

\* the bounds of the model: no account is opened past MaxAccounts and no
\* finite deposit takes an account past MaxDeposited
InBounds(req) ==
  /\ req.op = "createAccount" => nextAccountId <= MaxAccounts
  /\ (req.op = "deposit" /\ req.amount.k = "fin" /\ HasAccount(accounts, Target(req))
        /\ accounts[Target(req).v].balance.k = "fin")
       => accounts[Target(req).v].balance.v + req.amount.v <= MaxDeposited
  /\ (req.op = "login" /\ req.username = adminUsername /\ req.password = adminPassword)
       => \/ Cardinality(issued) < MaxTokens
          \/ \E t \in issued : t.payload.iat = now

\* ----------------------------------------------------------------- actions
Init ==
  /\ accounts = <<>>
  /\ nextAccountId = 1
  /\ now = 0
  /\ issued = {}
  /\ last = Idle
  /\ created = <<>>
  /\ net = <<>>
  /\ calls = <<>>

\* One request served to completion: the gate and the handler run
\* synchronously, so the checks and the update of the account map are one step.
ServeRequest(req, out) ==
  /\ accounts' = out.accounts
  /\ nextAccountId' = out.nextAccountId
  /\ last' = Answered(req, out, accounts, nextAccountId)
  /\ created' = IF out.status = 201 THEN Append(created, out.account_id) ELSE created
  /\ net' = Tally(net, req, out)
  /\ UNCHANGED now

Login(req) ==
  LET out == loginHandler(accounts, nextAccountId, req.username, req.password, now)
  IN /\ InBounds(req)
     /\ ServeRequest(req, out)
     /\ issued' = IF out.status = 200 THEN issued \cup {out.token} ELSE issued
     /\ UNCHANGED calls

CreateAccount(req) ==
  /\ InBounds(req)
  /\ ServeRequest(req, Protected(MkHeader(req.hk, req.tok), now, accounts, nextAccountId,
                                 createAccountHandler(accounts, nextAccountId)))
  /\ UNCHANGED <<issued, calls>>

\* the values uuidv4() can return where a handler that ends with this outcome
\* calls it: only the success path of deposit and withdraw draws one
UuidDraws(out) == IF out.status = 200 THEN 1..MaxUUID ELSE {0}

DepositOutcome(req, uuid) ==
  Protected(MkHeader(req.hk, req.tok), now, accounts, nextAccountId,
            depositHandler(accounts, nextAccountId, req.idParam, req.amount, uuid))

Deposit(req) ==
  /\ InBounds(req)
  /\ \E uuid \in UuidDraws(DepositOutcome(req, 0)) : ServeRequest(req, DepositOutcome(req, uuid))
  /\ UNCHANGED <<issued, calls>>

WithdrawOutcome(req, uuid) ==
  Protected(MkHeader(req.hk, req.tok), now, accounts, nextAccountId,
            withdrawHandler(accounts, nextAccountId, req.idParam, req.amount, uuid))

Withdraw(req) ==
  /\ \E uuid \in UuidDraws(WithdrawOutcome(req, 0)) : ServeRequest(req, WithdrawOutcome(req, uuid))
  /\ UNCHANGED <<issued, calls>>

GetBalance(req) ==
  /\ ServeRequest(req, Protected(MkHeader(req.hk, req.tok), now, accounts, nextAccountId,
                                 balanceHandler(accounts, nextAccountId, req.idParam)))
  /\ UNCHANGED <<issued, calls>>

\* the caller has read the response; the wire is free for the next request
Close ==
  /\ last.phase = "answered"
  /\ last' = Idle
  /\ UNCHANGED <<accounts, nextAccountId, now, issued, created, net, calls>>

\* time passes between requests
Tick ==
  /\ last.phase = "idle"
  /\ now + TickStep <= MaxTicks * TickStep
  /\ now' = now + TickStep
  /\ UNCHANGED <<accounts, nextAccountId, issued, last, created, net, calls>>

Next ==
  \/ last.phase = "idle" /\ \E req \in LoginRequests : Login(req)
  \/ last.phase = "idle" /\ \E req \in CreateRequests : CreateAccount(req)
  \/ last.phase = "idle" /\ \E req \in MoneyRequests("deposit") : Deposit(req)
  \/ last.phase = "idle" /\ \E req \in MoneyRequests("withdraw") : Withdraw(req)
  \/ last.phase = "idle" /\ \E req \in BalanceRequests : GetBalance(req)
  \/ Close
  \/ Tick

Spec == Init /\ [][Next]_vars

\* ------------------------------------------------- concurrent withdrawals
\* Several withdrawals on account 1 are in flight at once: each has been
\* received (its body is being read) before any of them is served, and the
\* event loop then runs their handlers one at a time in any order.
FirstToken == jwtSign(adminUsername, "admin", jwtSecret, tokenExpiry, 0)

\* a state the service reaches by a login, one account creation and deposits
InitConc ==
  \E b \in 0..MaxDeposited :
    /\ accounts = <<[id |-> 1, balance |-> Fin(b)]>>
    /\ nextAccountId = 2
    /\ now = 0
    /\ issued = {FirstToken}
    /\ last = Idle
    /\ created = <<1>>
    /\ net = <<Fin(b)>>
    /\ calls = <<>>

\* the amounts the withdraw handler takes for valid
WithdrawAmounts == {Fin(n) : n \in 1..MaxAmount} \cup {Infinity}

\* a withdrawal arrives while the earlier ones are still unserved; seen is the
\* balance at that moment
ReceiveWithdraw(amount) ==
  /\ Len(calls) < MaxInflight
  /\ \A i \in 1..Len(calls) : calls[i].status = 0
  /\ calls' = Append(calls, [amount |-> amount, seen |-> accounts[1].balance,
                             status |-> 0, error |-> ""])
  /\ UNCHANGED <<accounts, nextAccountId, now, issued, last, created, net>>

\* the event loop runs the handler of one of the withdrawals in flight
ServeWithdraw(i) ==
  LET req == Request("withdraw", <<"bearer", FirstToken>>, IdText(1), calls[i].amount)
  IN /\ calls[i].status = 0
     /\ \E uuid \in UuidDraws(WithdrawOutcome(req, 0)) :
          ServeRequest(req, WithdrawOutcome(req, uuid))
     /\ calls' = [calls EXCEPT ![i].status = last'.status, ![i].error = last'.error]
     /\ UNCHANGED issued

NextConc ==
  \/ \E a \in WithdrawAmounts : ReceiveWithdraw(a)
  \/ \E i \in 1..Len(calls) : ServeWithdraw(i)

SpecConc == InitConc /\ [][NextConc]_vars

\* ------------------------------------------------------- several sessions
\* The caller logs in more than once (at different times) and goes on using
\* any of the tokens it holds, on a ledger that is created and funded in
\* between.
Relogin(req) ==
  LET out == loginHandler(accounts, nextAccountId, req.username, req.password, now)
  IN /\ out.status = 200
          => \/ Cardinality(issued) < MaxSessions
             \/ \E t \in issued : t.payload.iat = now
     /\ ServeRequest(req, out)
     /\ issued' = IF out.status = 200 THEN issued \cup {out.token} ELSE issued
     /\ UNCHANGED calls

\* deposits of one unit, so that the ledger differs between the calls
UnitDeposits == {Request("deposit", c, i, Fin(1)) : c \in Credentials, i \in IdParams}

NextSessions ==
  \/ last.phase = "idle" /\ \E req \in LoginRequests : Relogin(req)
  \/ last.phase = "idle" /\ \E req \in CreateRequests : CreateAccount(req)
  \/ last.phase = "idle" /\ \E req \in UnitDeposits : Deposit(req)
  \/ last.phase = "idle" /\ \E req \in BalanceRequests : GetBalance(req)
  \/ Close
  \/ Tick

SpecSessions == Init /\ [][NextSessions]_vars

\* ------------------------------------------------------------------ claims
LedgerOps == {"createAccount", "deposit", "withdraw", "getBalance"}
MoneyOps == {"deposit", "withdraw"}

\* a request has been served: last holds it, its response and the ledger it found
Served == last.phase = "answered"

\* the ledger is as the request served last found it
LedgerUntouched ==
  accounts = last.before.accounts /\ nextAccountId = last.before.nextAccountId

\* the request served last carried a token /login handed out, untouched and
\* not yet expired
Verified == last.hk = "bearer" /\ last.tok \in issued /\ now < last.tok.payload.exp

PositiveFinite(x) == x.k = "fin" /\ x.v > 0

\* the account id the request served last names existed when it was served
Existed ==
  \E k \in 1..Len(created) :
    Fin(created[k]) = Target(last) /\ created[k] < last.before.nextAccountId

\* C1: in every reachable state every stored account has balance >= 0.
C1_BalanceNonNegative ==
  \A a \in DOMAIN accounts : JsLe(Fin(0), accounts[a].balance)

\* C2: a ledger call whose credential does not verify (no header, or a token
\* that fails verification) is answered 403 with no ledger data and leaves the
\* account map and the id counter unchanged, whatever account id and amount it
\* names, so before any account or amount check.
C2_GateBeforeLedger ==
  (Served /\ last.op \in LedgerOps /\ ~Verified)
    => /\ last.status = 403
       /\ last.balance = Undefined /\ last.account_id = 0 /\ last.transaction_id = 0
       /\ LedgerUntouched

\* an unauthenticated withdrawal on an unknown account was answered 403
C2_Witness ==
  /\ Served /\ last.op = "withdraw" /\ last.hk = "none"
  /\ accounts # <<>> /\ ~Existed
  /\ last.status = 403

\* C3: an admitted withdraw of a positive finite amount on an existing account
\* succeeds iff amount <= balance: then the balance decreases by amount;
\* otherwise it fails with 400 Insufficient funds and the balance is unchanged.
C3_WithdrawIffCovered ==
  (Served /\ last.op = "withdraw" /\ Verified /\ Existed /\ PositiveFinite(last.amount))
    => LET a == Target(last).v
           balance == last.before.accounts[a].balance
       IN IF JsLe(last.amount, balance)
          THEN /\ last.status = 200
               /\ accounts[a].balance = JsSub(balance, last.amount)
          ELSE /\ last.status = 400 /\ last.error = "Insufficient funds"
               /\ accounts[a].balance = balance

\* C4: an admitted deposit or withdraw on an existing account with an amount
\* that is not a positive finite number fails with 400 Invalid amount and
\* leaves the balances unchanged.
C4_InvalidAmountRejected ==
  (Served /\ last.op \in MoneyOps /\ Verified /\ Existed /\ ~PositiveFinite(last.amount))
    => /\ last.status = 400
       /\ last.error \in {"Invalid deposit amount", "Invalid withdrawal amount"}
       /\ LedgerUntouched

RECURSIVE SumGranted(_, _)
\* the total of the amounts of the first n withdrawals in flight answered 200
SumGranted(cs, n) ==
  IF n = 0 THEN 0
  ELSE SumGranted(cs, n - 1) + (IF cs[n].status = 200 THEN cs[n].amount.v ELSE 0)

RECURSIVE SumAsked(_, _)
\* the total of the amounts of the first n withdrawals in flight
SumAsked(cs, n) == IF n = 0 THEN Fin(0) ELSE JsAdd(SumAsked(cs, n - 1), cs[n].amount)

\* C5: when concurrent withdrawals on one account ask for more than its
\* balance, those granted total at most the initial balance, every other one
\* served is refused with Insufficient funds, and the balance is the initial
\* balance minus the granted total, never negative; once all are served, no
\* refused one would still have fitted.
C5_ConcurrentWithdrawals ==
  (calls # <<>> /\ JsLt(calls[1].seen, SumAsked(calls, Len(calls))))
    => LET initial == calls[1].seen.v
           granted == SumGranted(calls, Len(calls))
       IN /\ \A i \in 1..Len(calls) :
               \/ calls[i].status = 0
               \/ calls[i].status = 200 /\ calls[i].amount.k = "fin"
               \/ calls[i].status = 400 /\ calls[i].error = "Insufficient funds"
          /\ granted <= initial
          /\ accounts[1].balance = Fin(initial - granted)
          /\ initial - granted >= 0
          /\ (\A i \in 1..Len(calls) : calls[i].status # 0)
               => \A i \in 1..Len(calls) :
                    calls[i].status = 400 => JsLt(accounts[1].balance, calls[i].amount)

\* all of three concurrent withdrawals are served; one was granted and one that
\* would have fitted alone was refused
C5_Witness ==
  /\ Len(calls) = 3
  /\ \A i \in 1..3 : calls[i].status # 0
  /\ \E i, j \in 1..3 :
       /\ calls[i].status = 200
       /\ calls[j].status = 400 /\ JsLe(calls[j].amount, calls[j].seen)

\* C6: a token /login issued is admitted by every protected operation before
\* its expiry and rejected from its expiry on; an unsigned, a tampered and an
\* expired token are all rejected with 403 Token is not valid.
C6_TokenLifetime ==
  (Served /\ last.op \in LedgerOps)
    => /\ (last.hk = "bearer" /\ last.tok \in issued /\ now < last.tok.payload.exp)
            => last.status # 403
       /\ (last.hk = "bearer" /\ now >= last.tok.payload.exp)
            => last.status = 403 /\ last.error = "Token is not valid"
       /\ last.hk \in {"unsigned", "tampered"}
            => last.status = 403 /\ last.error = "Token is not valid"

\* a balance read presented an issued token at its expiry and was rejected
C6_Witness ==
  /\ Served /\ last.op = "getBalance" /\ last.hk = "bearer"
  /\ last.tok \in issued /\ now >= last.tok.payload.exp
  /\ last.status = 403

\* C7: an admitted createAccount never fails; the k-th creation returns id k
\* and stores account k with balance 0, so no id is returned twice.
C7_SequentialIds ==
  /\ \A k \in 1..Len(created) : created[k] = k
  /\ (Served /\ last.op = "createAccount" /\ last.status # 403)
       => /\ last.status = 201
          /\ last.account_id = Len(created)
          /\ last.account_id \in DOMAIN accounts
          /\ accounts[last.account_id] = [id |-> last.account_id, balance |-> Fin(0)]

\* the second creation returned id 2
C7_Witness ==
  /\ Served /\ last.op = "createAccount" /\ last.status = 201
  /\ last.account_id = 2 /\ Len(created) = 2

\* C8: the balance getBalance returns is the sum of the amounts of the
\* successful deposits minus that of the successful withdrawals of the account.
C8_BalanceIsNetOfTransactions ==
  (Served /\ last.op = "getBalance" /\ last.status = 200)
    => last.balance = net[Target(last).v]

\* C9: an admitted deposit, withdraw or getBalance on an account id that was
\* never created fails with 404 Account not found, whatever the amount, and
\* changes no state.
C9_UnknownAccountNotFound ==
  (Served /\ last.op \in {"deposit", "withdraw", "getBalance"} /\ Verified /\ ~Existed)
    => /\ last.status = 404 /\ last.error = "Account not found"
       /\ LedgerUntouched

\* an admitted deposit of an invalid amount on an unknown account got 404
C9_Witness ==
  /\ Served /\ last.op = "deposit" /\ last.hk = "bearer"
  /\ created # <<>> /\ ~Existed /\ last.amount = StrAbc
  /\ last.status = 404

C11_UserLoginSucceeds ==
  (Served /\ last.op = "login")
    => /\ (last.username = "user" /\ last.password = "user") => last.status = 200
       /\ last.status = 200 => last.token.payload.role = "user"

\* the header carries no bearer value: there is none, or it has no second word
NoBearerValue(req) == req.hk \in {"none", "schemeonly"}

\* C12: the gate answers 403 No token provided whenever there is no
\* authorization header or the header carries no bearer value, and 403 Token
\* is not valid only when a token was present and failed verification.
C12_MissingVersusInvalid ==
  (Served /\ last.op \in LedgerOps)
    => /\ NoBearerValue(last) => (last.status = 403 /\ last.error = "No token provided")
       /\ last.error = "Token is not valid" => (last.status = 403 /\ ~NoBearerValue(last))

\* C13: getBalance changes nothing: whatever the account id and the
\* credential, the account map and the id counter are as before the call; for
\* an existing account the value returned is the account's current balance.
C13_GetBalanceReadsOnly ==
  (Served /\ last.op = "getBalance")
    => /\ LedgerUntouched
       /\ (Verified /\ Existed)
            => (last.status = 200 /\ last.balance = accounts[Target(last).v].balance)

\* C15: a deposit or withdraw on account a changes at most the balance of a
\* (every other account, the set of account ids and the id counter are
\* unchanged); no other operation changes a balance; createAccount only adds
\* one account with balance 0.
C15_OnlyTargetBalanceChanges ==
  Served
    => LET old == last.before.accounts
       IN /\ last.op \in MoneyOps
               => /\ DOMAIN accounts = DOMAIN old
                  /\ nextAccountId = last.before.nextAccountId
                  /\ \A a \in DOMAIN old : Fin(a) # Target(last) => accounts[a] = old[a]
                  /\ \A a \in DOMAIN old : accounts[a].id = old[a].id
          /\ last.op \notin MoneyOps
               => \A a \in DOMAIN old : a \in DOMAIN accounts /\ accounts[a] = old[a]
          /\ last.op = "createAccount"
               => /\ Cardinality(DOMAIN accounts \ DOMAIN old) <= 1
                  /\ \A a \in DOMAIN accounts \ DOMAIN old : accounts[a].balance = Fin(0)
          /\ last.op \in {"login", "getBalance"} => DOMAIN accounts = DOMAIN old

\* a deposit on account 1 succeeded while account 2 held money
C15_Witness ==
  /\ Served /\ last.op = "deposit" /\ last.status = 200 /\ Target(last) = Fin(1)
  /\ 2 \in DOMAIN accounts /\ accounts[2].balance = Fin(1)
  /\ accounts[1] # last.before.accounts[1]

\* C16: accounts are never deleted and ids are dense: the existing ids are
\* exactly 1..nextAccountId-1, each account's id field is its key, and an
\* account that existed before a call exists after it.
C16_DenseIdsNeverDeleted ==
  /\ DOMAIN accounts = 1..(nextAccountId - 1)
  /\ \A a \in DOMAIN accounts : accounts[a].id = a
  /\ Served => /\ DOMAIN last.before.accounts \subseteq DOMAIN accounts
               /\ last.before.nextAccountId <= nextAccountId

\* with two accounts present a third call created nothing and removed nothing
C16_Witness ==
  /\ Served /\ last.op = "withdraw" /\ last.status = 200
  /\ DOMAIN last.before.accounts = {1, 2} /\ DOMAIN accounts = {1, 2}
  /\ nextAccountId = 3

\* C17: the failure checks of an admitted deposit or withdraw run in a fixed
\* order and one failure is reported: account existence first (404 even when
\* the amount is invalid too), then amount validity (for withdraw, Invalid
\* amount even when the balance is insufficient too), then for withdraw only
\* the sufficiency check; deposit never fails with Insufficient funds.
C17_FailureOrder ==
  (Served /\ last.op \in MoneyOps /\ Verified)
    => /\ IF ~Existed
          THEN last.status = 404 /\ last.error = "Account not found"
          ELSE IF ~PositiveFinite(last.amount)
          THEN /\ last.status = 400
               /\ last.error = (IF last.op = "deposit" THEN "Invalid deposit amount"
                                 ELSE "Invalid withdrawal amount")
          ELSE IF /\ last.op = "withdraw"
                  /\ ~JsLe(last.amount, last.before.accounts[Target(last).v].balance)
          THEN last.status = 400 /\ last.error = "Insufficient funds"
          ELSE last.status = 200 /\ last.error = ""
       /\ last.op = "deposit" => last.error # "Insufficient funds"

FailureStatuses == {400, 401, 403, 404}

\* C18: a call answered with a failure (401, 403, 404 or 400) leaves the
\* account set, every balance and the id counter as they were before the call,
\* and that same call's one response carries the error; the server is left
\* able to serve the next call.
C18_FailureChangesNothing ==
  (Served /\ last.status \in FailureStatuses)
    => /\ LedgerUntouched
       /\ last.error # "" /\ last.sent = 1
       /\ last.transaction_id = 0 /\ last.account_id = 0
       /\ last.token = UndefinedToken /\ last.balance = Undefined
       /\ ENABLED Close

\* a withdrawal of more than the balance was refused with money in the account
C18_Witness ==
  /\ Served /\ last.op = "withdraw" /\ last.status = 400
  /\ last.error = "Insufficient funds"
  /\ accounts[1].balance = Fin(1) /\ last.amount = Fin(2)

\* C19: every request to a protected operation gets exactly one response:
\* the gate either sends 403 and the handler does not run, or the handler runs
\* once and the gate sends nothing; the handler sends one response, and
\* nothing is changed once a failure response has been sent.
C19_ExactlyOneResponse ==
  (Served /\ last.op \in LedgerOps)
    => /\ last.sent = 1
       /\ last.handled \in {0, 1}
       /\ last.handled = 0 <=> last.status = 403
       /\ last.handled = 0 => LedgerUntouched
       /\ last.status \in FailureStatuses => LedgerUntouched

\* a deposit with a tampered token was stopped at the gate on an existing account
C19_Witness ==
  /\ Served /\ last.op = "deposit" /\ last.hk = "tampered"
  /\ Existed /\ last.amount = Fin(1)
  /\ last.sent = 1 /\ last.handled = 0 /\ last.status = 403

\* C20: whether the gate admits a call depends only on the token it carries
\* and the clock: a token /login signed is admitted exactly while it is
\* unexpired, whatever the ledger holds, however many tokens were issued before
\* or after it and whatever was answered before; and what an admitted call is
\* answered is what the handler makes of the ledger and the request alone,
\* whichever valid token was presented.
C20_StatelessVerification ==
  (Served /\ last.op \in LedgerOps)
    => LET accs == last.before.accounts
           nextId == last.before.nextAccountId
           admitted == last.status # 403
           out == CASE last.op = "createAccount" -> createAccountHandler(accs, nextId)
                    [] last.op = "deposit" ->
                         depositHandler(accs, nextId, last.idParam, last.amount,
                                        last.transaction_id)
                    [] last.op = "withdraw" ->
                         withdrawHandler(accs, nextId, last.idParam, last.amount,
                                         last.transaction_id)
                    [] OTHER -> balanceHandler(accs, nextId, last.idParam)
       IN /\ admitted <=> (last.hk = "bearer" /\ now < last.tok.payload.exp)
          /\ admitted
               => /\ last.status = out.status /\ last.error = out.error
                  /\ last.balance = out.balance /\ last.account_id = out.account_id
                  /\ accounts = out.accounts /\ nextAccountId = out.nextAccountId

\* after a second login the first, still unexpired token read a funded account
C20_Witness ==
  /\ Served /\ last.op = "getBalance" /\ last.hk = "bearer" /\ last.status = 200
  /\ last.balance = Fin(1)
  /\ \E t \in issued : t.payload.iat > last.tok.payload.iat
====
